---- MODULE Spec2Model ----
(***************************************************************************)
(* Model of src/summariser.py: one run of the transcript summariser, from  *)
(* the construction of TranscriptSummariser in main() to process exit.     *)
(* Strings are sequences of one-character strings, so that newline         *)
(* translation, str.strip(), strftime and the pathlib splitting are        *)
(* computed character by character as the interpreter computes them.       *)
(***************************************************************************)
EXTENDS Integers, Sequences, FiniteSets, TLC

VARIABLES pc, exitCode, msg, log,
          input_exists, input_file, output_arg, output_file, timestamp,
          file_raw, text_content,
          raised, summary, invokeCalls,
          out_fs, out_fs0, outOpened

vars == <<pc, exitCode, msg, log, input_exists, input_file, output_arg, output_file,
          timestamp, file_raw, text_content, raised, summary, invokeCalls,
          out_fs, out_fs0, outOpened>>

(***************************************************************************)
(* Bounds of the model.                                                    *)
(***************************************************************************)
MaxLen == 2          \* longest transcript file content, in characters
MaxSummary == 2      \* longest summary text returned by the service
MaxStem == 2         \* longest file-name stem of the path samples

(***************************************************************************)
(* Characters and distinguished values.                                    *)
(***************************************************************************)
LF == "\n"
CR == "\r"
SP == " "

None == <<"<None>">>            \* Python None (output_file default, no value yet)
Absent == <<"<absent>">>        \* no file at the output path
JsonNonStr == <<"<non-str>">>   \* a JSON value that is not a string (null, number)

NotExited == -1

\* The sets of sequences over S of length at most n.
RECURSIVE SeqsUpTo(_, _)
SeqsUpTo(S, n) ==
    IF n = 0 THEN {<<>>}
    ELSE LET shorter == SeqsUpTo(S, n - 1)
         IN  shorter \cup {Append(s, c) : s \in {t \in shorter : Len(t) = n - 1}, c \in S}

(***************************************************************************)
(* str methods used by the program.                                        *)
(***************************************************************************)
\* str.isspace() on the characters of the model's alphabets.
IsSpace(c) == c \in {SP, LF, CR, "\t"}

\* s.strip(): drop leading and trailing whitespace.
RECURSIVE LStrip(_)
LStrip(s) == IF s # <<>> /\ IsSpace(Head(s)) THEN LStrip(Tail(s)) ELSE s

RECURSIVE RStrip(_)
RStrip(s) == IF s # <<>> /\ IsSpace(s[Len(s)]) THEN RStrip(SubSeq(s, 1, Len(s) - 1)) ELSE s

\* Variant: lstrip() in place of strip().
Strip_LeftOnly(s) == LStrip(s)

Strip(s) == RStrip(LStrip(s))

\* s.lower() on the characters of the path alphabet.
LowerChar(c) == CASE c = "T" -> "t" [] c = "X" -> "x" [] c = "A" -> "a" [] OTHER -> c
Lower(s) == [i \in 1..Len(s) |-> LowerChar(s[i])]

\* s.endswith(t)
EndsWith(s, t) == Len(s) >= Len(t) /\ SubSeq(s, Len(s) - Len(t) + 1, Len(s)) = t

DotTxt == <<".", "t", "x", "t">>

(***************************************************************************)
(* Text-mode file reading: open(path, 'r', encoding='utf-8').read() uses   *)
(* universal newlines, so "\r\n" and a lone "\r" arrive as "\n".           *)
(***************************************************************************)
\* Variant: only "\r\n" is translated, a lone "\r" is kept.
RECURSIVE TextModeRead_CRLFOnly(_)
TextModeRead_CRLFOnly(raw) ==
    IF raw = <<>> THEN <<>>
    ELSE IF Head(raw) = CR /\ Len(raw) >= 2 /\ raw[2] = LF
         THEN <<LF>> \o TextModeRead_CRLFOnly(SubSeq(raw, 3, Len(raw)))
         ELSE <<Head(raw)>> \o TextModeRead_CRLFOnly(Tail(raw))

RECURSIVE TextModeRead(_)
TextModeRead(raw) ==
    IF raw = <<>> THEN <<>>
    ELSE IF Head(raw) = CR
         THEN IF Len(raw) >= 2 /\ raw[2] = LF
              THEN <<LF>> \o TextModeRead(SubSeq(raw, 3, Len(raw)))
              ELSE <<LF>> \o TextModeRead(Tail(raw))
         ELSE <<Head(raw)>> \o TextModeRead(Tail(raw))

(***************************************************************************)
(* datetime.strftime('%Y%m%d_%H%M%S')                                      *)
(***************************************************************************)
DigitChar(d) == <<"0", "1", "2", "3", "4", "5", "6", "7", "8", "9">>[d + 1]

\* n written in decimal, zero-padded to w digits.
RECURSIVE ZeroPad(_, _)
ZeroPad(n, w) == IF w = 0 THEN <<>> ELSE Append(ZeroPad(n \div 10, w - 1), DigitChar(n % 10))

\* Variant: the format '%Y%m%d%H%M%S', without the underscore.
strftime_NoUnderscore(t) ==
    ZeroPad(t.Y, 4) \o ZeroPad(t.M, 2) \o ZeroPad(t.D, 2) \o
    ZeroPad(t.h, 2) \o ZeroPad(t.m, 2) \o ZeroPad(t.s, 2)

strftime(t) ==
    ZeroPad(t.Y, 4) \o ZeroPad(t.M, 2) \o ZeroPad(t.D, 2) \o <<"_">> \o
    ZeroPad(t.h, 2) \o ZeroPad(t.m, 2) \o ZeroPad(t.s, 2)

\* The wall-clock readings datetime.now() is drawn from.
Clock == { [Y |-> 2024, M |-> 1, D |-> 5, h |-> 9, m |-> 3, s |-> 7],
           [Y |-> 1999, M |-> 12, D |-> 31, h |-> 23, m |-> 59, s |-> 50] }

(***************************************************************************)
(* pathlib.PurePosixPath on paths in normal form (no "//", no "." or ".."  *)
(* components, no trailing "/").                                           *)
(***************************************************************************)
\* Index of the last occurrence of c in s, 0 if there is none (str.rfind + 1).
RFind(s, c) == IF \E i \in 1..Len(s) : s[i] = c
               THEN CHOOSE i \in 1..Len(s) : s[i] = c /\ \A j \in (i+1)..Len(s) : s[j] # c
               ELSE 0

PathName(p) == SubSeq(p, RFind(p, "/") + 1, Len(p))

\* The parent as a string; <<>> stands for Path('.').
PathParent(p) == SubSeq(p, 1, RFind(p, "/") - 1)

\* parent / name
PathJoin(parent, name) == IF parent = <<>> THEN name ELSE parent \o <<"/">> \o name

\* Variant: a leading dot starts a suffix too (no hidden-file rule).
PathSuffix_NoHidden(p) ==
    LET name == PathName(p)
        i == RFind(name, ".")
    IN  IF 1 <= i /\ i < Len(name) THEN SubSeq(name, i, Len(name)) ELSE <<>>

\* PurePath.suffix: name[i:] for the last dot at i if 0 < i < len(name) - 1.
PathSuffix(p) ==
    LET name == PathName(p)
        i == RFind(name, ".")
    IN  IF 1 < i /\ i < Len(name) THEN SubSeq(name, i, Len(name)) ELSE <<>>

\* PurePath.stem: the name without its suffix.
PathStem(p) ==
    LET name == PathName(p)
    IN  SubSeq(name, 1, Len(name) - Len(PathSuffix(p)))

\* PurePath.with_stem(stem) == with_name(stem + suffix)
PathWithStem(p, stem) == PathJoin(PathParent(p), stem \o PathSuffix(p))

(***************************************************************************)
(* Inputs of a run.                                                        *)
(***************************************************************************)
\* File names: a stem over {a, .} followed by nothing, ".txt" or ".TXT".
\* Names that are empty, "." or start with ".." are not file names in normal
\* form and are left out.
NameSamples ==
    { n \in { st \o ext : st \in SeqsUpTo({"a", "."}, MaxStem),
                          ext \in {<<>>, DotTxt, <<".", "T", "X", "T">>} } :
        /\ n # <<>>
        /\ n # <<".">>
        /\ ~(Len(n) >= 2 /\ n[1] = "." /\ n[2] = ".") }

PathSamples == { PathJoin(d, n) : d \in {<<>>, <<"d">>}, n \in NameSamples }

\* The command lines of the full-pipeline runs.
RunInputs == { <<"a", ".", "t", "x", "t">>, <<"d", "/", "a", ".", "T", "X", "T">>, <<"a">> }
RunOutputs == { None, <<"o", ".", "t", "x", "t">>, <<"d", "/", "o">> }

\* Contents of the transcript file on disk.
FileContents == SeqsUpTo({"a", SP, LF, CR}, MaxLen)

\* Values of content[0].text in the service's response.
SummaryTexts == SeqsUpTo({"a", SP, LF}, MaxSummary)

\* A file already present at the output path before the run.
OldFile == <<"o", "l", "d">>

\* What the two writes of save_summary_to_txt put in the file.
Header == <<"Transcript Summary", LF, LF>>

(***************************************************************************)
(* Messages printed before exiting.                                        *)
(***************************************************************************)
M_NoCreds == "AWS credentials not found. Please configure your AWS credentials."
M_Connect == "Error connecting to AWS Bedrock: {e}"
M_NotFound == "Error: Input file not found: {input_file}"
M_NotTxt == "Error: Input file must be a .txt file"
M_NoText == "Error: No text content found in the document"
M_ReadErr == "Error reading .txt file: {e}"
M_AccessDenied == "Access denied. Please check your AWS permissions for Bedrock."
M_ModelInvocation == "Model invocation failed. Please check the input format."
M_BedrockErr == "AWS Bedrock error: {e}"
M_SummarizationErr == "Error during summarization: {e}"
M_SaveErr == "Error saving summary to .txt: {e}"
M_Completed == "Process completed successfully!"

\* Exceptions: where raised, the class, and the error code of a ClientError.
NoExc == [stage |-> "", kind |-> "", code |-> ""]
Exc(stage, kind, code) == [stage |-> stage, kind |-> kind, code |-> code]

\* What boto3.client(...) can do.
ConstructOutcomes == {"ok", "NoCredentialsError", "Exception"}

\* What invoke_model and the parsing of its response can do.
Responses ==
    { [kind |-> "ok", code |-> "", text |-> x] : x \in SummaryTexts } \cup
    { [kind |-> "nonstr", code |-> "", text |-> JsonNonStr],
      [kind |-> "absent", code |-> "", text |-> <<>>],
      [kind |-> "ClientError", code |-> "AccessDeniedException", text |-> <<>>],
      [kind |-> "ClientError", code |-> "ModelInvocationException", text |-> <<>>],
      [kind |-> "ClientError", code |-> "ThrottlingException", text |-> <<>>],
      [kind |-> "NoCredentialsError", code |-> "", text |-> <<>>],
      [kind |-> "Exception", code |-> "", text |-> <<>>] }

(***************************************************************************)
(* Initial states: argparse has produced input_file and output.            *)
(***************************************************************************)
InitWith(inputs, outputs) ==
    /\ pc = "construct"
    /\ exitCode = NotExited
    /\ msg = ""
    /\ log = <<>>
    /\ input_file \in inputs
    /\ input_exists \in BOOLEAN      \* whether the path names something on disk
    /\ output_arg \in outputs
    /\ output_file = None
    /\ timestamp = None
    /\ file_raw = None
    /\ text_content = None
    /\ raised = NoExc
    /\ summary = None
    /\ invokeCalls = 0
    /\ out_fs0 \in {Absent, OldFile}
    /\ out_fs = out_fs0
    /\ outOpened = FALSE

Init == InitWith(RunInputs, RunOutputs)

InitPaths == InitWith(PathSamples, {None} \cup PathSamples)

\* sys.exit(code) after print(m)
Exit(code, m) ==
    /\ pc' = "exited"
    /\ exitCode' = code
    /\ msg' = m

(***************************************************************************)
(* TranscriptSummariser.__init__                                           *)
(***************************************************************************)
Construct ==
    /\ pc = "construct"
    /\ \E o \in ConstructOutcomes :
         IF o = "ok"
         THEN /\ pc' = "validate"
              /\ UNCHANGED <<exitCode, msg, raised>>
         ELSE /\ raised' = Exc("construct", o, "")
              /\ Exit(1, IF o = "NoCredentialsError" THEN M_NoCreds ELSE M_Connect)
    /\ UNCHANGED <<log, input_exists, input_file, output_arg, output_file, timestamp, file_raw,
                   text_content, summary, invokeCalls, out_fs, out_fs0, outOpened>>

(***************************************************************************)
(* process_transcript: validation of the input file                        *)
(***************************************************************************)
validate_input ==
    /\ pc = "validate"
    /\ log' = Append(log, "validate")
    /\ IF ~input_exists
       THEN Exit(1, M_NotFound)
       ELSE IF ~EndsWith(Lower(input_file), DotTxt)
            THEN Exit(1, M_NotTxt)
            ELSE /\ pc' = "derive"
                 /\ UNCHANGED <<exitCode, msg>>
    /\ UNCHANGED <<input_exists, input_file, output_arg, output_file, timestamp, file_raw,
                   text_content, raised, summary, invokeCalls, out_fs, out_fs0,
                   outOpened>>

(***************************************************************************)
(* process_transcript: timestamp and output file name                      *)
(***************************************************************************)
DerivedOutput(inp, out, ts) ==
    IF out = None
    THEN PathJoin(PathParent(inp), PathStem(inp) \o <<"_", "s", "u", "m", "m", "a", "r", "y", "_">> \o ts \o DotTxt)
    ELSE IF PathSuffix(out) = DotTxt
         THEN PathWithStem(out, PathStem(out) \o <<"_">> \o ts)
         ELSE PathJoin(PathParent(out), PathName(out) \o <<"_">> \o ts \o DotTxt)

derive_output_file ==
    /\ pc = "derive"
    /\ \E now \in Clock :
         /\ timestamp' = strftime(now)
         /\ output_file' = DerivedOutput(input_file, output_arg, timestamp')
    /\ pc' = "load"
    /\ UNCHANGED <<exitCode, msg, log, input_exists, input_file, output_arg, file_raw,
                   text_content, raised, summary, invokeCalls, out_fs, out_fs0,
                   outOpened>>

(***************************************************************************)
(* read_txt_file, as called from process_transcript.  sys.exit raises      *)
(* SystemExit, which "except Exception" does not catch.                    *)
(***************************************************************************)
\* Variant: "not text_content", without the strip().
IsBlank_NoStrip(text) == text = <<>>

\* "not text_content.strip()"
IsBlank(text) == Strip(text) = <<>>

\* open() or the UTF-8 decoding raises, or the file has some content.
ReadOutcomes == {None} \cup FileContents

read_txt_file ==
    /\ pc = "load"
    /\ log' = Append(log, "load")
    /\ \E raw \in ReadOutcomes :
         IF raw = None
         THEN /\ raised' = Exc("load", "OSError", "")
              /\ Exit(1, M_ReadErr)
              /\ UNCHANGED <<file_raw, text_content>>
         ELSE /\ file_raw' = raw
              /\ IF IsBlank(TextModeRead(raw))
                 THEN /\ Exit(1, M_NoText)
                      /\ UNCHANGED <<text_content, raised>>
                 ELSE /\ text_content' = TextModeRead(raw)
                      /\ pc' = "client"
                      /\ UNCHANGED <<exitCode, msg, raised>>
    /\ UNCHANGED <<input_exists, input_file, output_arg, output_file, timestamp, summary,
                   invokeCalls, out_fs, out_fs0, outOpened>>

(***************************************************************************)
(* summarize_with_bedrock, as called from process_transcript               *)
(***************************************************************************)
\* The message of the "except ClientError" branch for an error code.
ClientErrorMessage(code) ==
    IF code = "AccessDeniedException" THEN M_AccessDenied
    ELSE IF code = "ModelInvocationException" THEN M_ModelInvocation
    ELSE M_BedrockErr

\* Variant: the except branch prints and falls through, returning None.
RequestFailed_NoExit(e, m) ==
    /\ raised' = e
    /\ summary' = None
    /\ pc' = "write"
    /\ UNCHANGED <<exitCode, msg>>

\* Variant: the except branch retries the request once more before giving up.
RequestFailed_Retry(e, m) ==
    IF invokeCalls < 2
    THEN /\ raised' = e
         /\ pc' = "client"
         /\ UNCHANGED <<exitCode, msg, summary>>
    ELSE /\ raised' = e
         /\ Exit(1, m)
         /\ UNCHANGED summary

\* An except branch of summarize_with_bedrock: print the message, sys.exit(1).
RequestFailed(e, m) ==
    /\ raised' = e
    /\ Exit(1, m)
    /\ UNCHANGED summary

summarize_with_bedrock ==
    /\ pc = "client"
    /\ log' = Append(log, "client")
    /\ invokeCalls' = invokeCalls + 1
    /\ \E r \in Responses :
         CASE r.kind \in {"ok", "nonstr"} ->
                \* response_body['content'][0]['text'] is returned whatever its type
                /\ summary' = r.text
                /\ pc' = "write"
                /\ UNCHANGED <<exitCode, msg, raised>>
           [] r.kind = "absent" ->
                RequestFailed(Exc("client", "KeyError", ""), M_SummarizationErr)
           [] r.kind = "ClientError" ->
                RequestFailed(Exc("client", "ClientError", r.code), ClientErrorMessage(r.code))
           [] OTHER ->
                RequestFailed(Exc("client", r.kind, ""), M_SummarizationErr)
    /\ UNCHANGED <<input_exists, input_file, output_arg, output_file, timestamp, file_raw,
                   text_content, out_fs, out_fs0, outOpened>>

(***************************************************************************)
(* save_summary_to_txt, as called from process_transcript, and the return  *)
(* of main().                                                              *)
(***************************************************************************)
\* open(output_path, 'w') fails; a write or the closing flush fails; all succeed.
WriteOutcomes == {"open_fails", "write_fails", "ok"}

\* Variant: the except branch prints and falls through to the normal return.
SaveFailed_NoExit(kind) ==
    /\ raised' = Exc("write", kind, "")
    /\ Exit(0, M_Completed)

\* The except branch of save_summary_to_txt: print the message, sys.exit(1).
SaveFailed(kind) ==
    /\ raised' = Exc("write", kind, "")
    /\ Exit(1, M_SaveErr)

save_summary_to_txt ==
    /\ pc = "write"
    /\ log' = Append(log, "write")
    /\ outOpened' = TRUE
    /\ \E w \in WriteOutcomes :
         CASE w = "open_fails" ->
                /\ SaveFailed("OSError")
                /\ UNCHANGED out_fs
           [] w = "write_fails" ->
                \* the file was created or truncated; some prefix of the data is in it
                /\ SaveFailed("OSError")
                /\ out_fs' \in {<<>>, Header}
           [] OTHER ->
                IF summary = JsonNonStr
                THEN \* summary.strip() raises AttributeError after the header was written
                     /\ SaveFailed("AttributeError")
                     /\ out_fs' = Header
                ELSE /\ out_fs' = Header \o Strip(summary) \o <<LF>>
                     /\ Exit(0, M_Completed)
                     /\ UNCHANGED raised
    /\ UNCHANGED <<input_exists, input_file, output_arg, output_file, timestamp, file_raw,
                   text_content, summary, invokeCalls, out_fs0>>

(***************************************************************************)
(* Specifications                                                          *)
(***************************************************************************)
Next ==
    \/ Construct
    \/ validate_input
    \/ derive_output_file
    \/ read_txt_file
    \/ summarize_with_bedrock
    \/ save_summary_to_txt

Spec == Init /\ [][Next]_vars

\* The interpreter runs the next statement: a run that has not exited goes on.
FairSpec == Init /\ [][Next]_vars /\ WF_vars(Next)

\* The file-name derivation alone, over the larger set of path samples.
NextPaths ==
    \/ Construct
    \/ validate_input
    \/ derive_output_file

SpecPaths == InitPaths /\ [][NextPaths]_vars

TypeOK ==
    /\ pc \in {"construct", "validate", "derive", "load", "client", "write", "exited"}
    /\ exitCode \in {NotExited, 0, 1}
    /\ invokeCalls \in Nat
    /\ outOpened \in BOOLEAN

(***************************************************************************)
(* Vocabulary of the properties                                            *)
(***************************************************************************)
Range(f) == { f[i] : i \in DOMAIN f }

IsDigit(c) == c \in {"0", "1", "2", "3", "4", "5", "6", "7", "8", "9"}

\* s without its last n characters.
DropLast(s, n) == SubSeq(s, 1, Len(s) - n)

\* The final component of a path string, and what is before it.
FinalComponent(p) == SubSeq(p, RFind(p, "/") + 1, Len(p))
DirectoryPart(p) == SubSeq(p, 1, RFind(p, "/"))

InputIsTxt == EndsWith(Lower(input_file), DotTxt)

\* The content read from the file is empty after trimming whitespace.
ReadBlank == file_raw # None /\ \A i \in 1..Len(file_raw) : IsSpace(file_raw[i])

StageOrder == <<"validate", "load", "client", "write">>

(***************************************************************************)
(* C1: once read_txt_file has read content that is empty after trimming    *)
(* whitespace, the run has exited with a non-zero code inside the loader   *)
(* and invoke_model was never called.                                      *)
(***************************************************************************)
C1_BlankInputNeverRequests ==
    ReadBlank =>
        /\ invokeCalls = 0
        /\ pc = "exited"
        /\ exitCode # 0
        /\ msg = M_NoText
        /\ log[Len(log)] = "load"

C1_Witness ==
    /\ ReadBlank
    /\ file_raw # <<>>
    /\ pc = "exited"

(***************************************************************************)
(* C2: when invoke_model raised ClientError with code                      *)
(* AccessDeniedException, the process has exited with a non-zero code, the *)
(* writer was never reached and the output path was never opened.          *)
(***************************************************************************)
AccessDenied == raised.kind = "ClientError" /\ raised.code = "AccessDeniedException"

C2_AccessDeniedWritesNothing ==
    AccessDenied =>
        /\ pc = "exited"
        /\ exitCode # 0
        /\ exitCode # NotExited
        /\ "write" \notin Range(log)
        /\ ~outOpened
        /\ out_fs = out_fs0

C2_Witness ==
    /\ AccessDenied
    /\ pc = "exited"
    /\ out_fs0 = Absent

(***************************************************************************)
(* C3: every run exits; it exits with code 0 exactly when the input was    *)
(* validated, the content read, a summary obtained and the output written, *)
(* and with a non-zero code and a message after any validation, request or *)
(* write failure.                                                          *)
(***************************************************************************)
RunSucceeded ==
    /\ input_exists
    /\ InputIsTxt
    /\ file_raw # None
    /\ ~ReadBlank
    /\ text_content # None
    /\ invokeCalls = 1
    /\ summary \notin {None, JsonNonStr}
    /\ raised = NoExc
    /\ outOpened
    /\ out_fs # Absent
    /\ Len(out_fs) > Len(Header)
    /\ SubSeq(out_fs, 1, Len(Header)) = Header

RunFailed ==
    \/ ~input_exists
    \/ ~InputIsTxt
    \/ ReadBlank
    \/ raised # NoExc
    \/ summary = JsonNonStr

C3_ExitCodes ==
    /\ <>(pc = "exited")
    /\ [](pc = "exited" =>
            /\ exitCode \in {0, 1}
            /\ msg # ""
            /\ (exitCode = 0 <=> RunSucceeded)
            /\ (RunFailed => exitCode = 1 /\ msg # M_Completed))

C3_Witness ==
    /\ pc = "exited"
    /\ exitCode = 0
    /\ RunSucceeded

(***************************************************************************)
(* C4: invoke_model is called at most once in a run, and a failed request  *)
(* is followed by the exit of the process, not by another request.         *)
(***************************************************************************)
C4_AtMostOneRequest ==
    /\ invokeCalls <= 1
    /\ raised.stage = "client" => (pc = "exited" /\ invokeCalls = 1)

C4_Witness ==
    /\ invokeCalls = 1
    /\ raised.stage = "client"
    /\ raised.kind = "Exception"

(***************************************************************************)
(* C5: a failure of the summarization client is reported with the message  *)
(* of its class (credential, authorization, malformed request, generic),   *)
(* the classes having disjoint messages, whether it was raised by the      *)
(* construction of the client or by the request, and the run exits with a  *)
(* non-zero code.                                                          *)
(***************************************************************************)
FailureClass(e) ==
    CASE e.kind = "NoCredentialsError" -> "credential"
      [] e.kind = "ClientError" /\ e.code = "AccessDeniedException" -> "authorization"
      [] e.kind = "ClientError" /\ e.code = "ModelInvocationException" -> "malformed_request"
      [] OTHER -> "generic"

ClassMessages(c) ==
    CASE c = "credential" -> {M_NoCreds}
      [] c = "authorization" -> {M_AccessDenied}
      [] c = "malformed_request" -> {M_ModelInvocation}
      [] OTHER -> {M_Connect, M_BedrockErr, M_SummarizationErr}

C5_MessagePerFailureClass ==
    raised.stage \in {"construct", "client"} =>
        /\ pc = "exited"
        /\ exitCode = 1
        /\ msg \in ClassMessages(FailureClass(raised))

NewlinesNormalised(raw) ==
    LET kept == { i \in 1..Len(raw) : ~(raw[i] = LF /\ i > 1 /\ raw[i-1] = CR) }
        nth(k) == CHOOSE i \in kept : Cardinality({ j \in kept : j <= i }) = k
    IN  [k \in 1..Cardinality(kept) |-> IF raw[nth(k)] = CR THEN LF ELSE raw[nth(k)]]

SummaryInfix == <<"_", "s", "u", "m", "m", "a", "r", "y", "_">>

\* 14 digits.
IsFourteenDigits(t) == Len(t) = 14 /\ \A i \in 1..14 : IsDigit(t[i])

\* YYYYMMDD_HHMMSS: 8 digits, an underscore, 6 digits.
IsTimestamp(t) ==
    /\ Len(t) = 15
    /\ t[9] = "_"
    /\ \A i \in (1..15) \ {9} : IsDigit(t[i])

\* file is prefix, then a string satisfying the pattern, then ".txt".
MatchesPattern(file, prefix, IsStamp(_)) ==
    /\ Len(file) > Len(prefix) + Len(DotTxt)
    /\ SubSeq(file, 1, Len(prefix)) = prefix
    /\ EndsWith(file, DotTxt)
    /\ IsStamp(SubSeq(file, Len(prefix) + 1, Len(file) - Len(DotTxt)))

DefaultDerived == output_arg = None /\ output_file # None /\ EndsWith(input_file, DotTxt)

ExplicitDerived == output_arg # None /\ output_file # None

C9_HeaderThenExactText ==
    (pc = "exited" /\ exitCode = 0) => out_fs = Header \o summary \o <<LF>>

\* x from its first to its last non-whitespace character.
Trimmed(x) ==
    LET solid == { i \in 1..Len(x) : ~IsSpace(x[i]) }
    IN  IF solid = {} THEN <<>>
        ELSE SubSeq(x, CHOOSE i \in solid : \A j \in solid : i <= j,
                       CHOOSE i \in solid : \A j \in solid : j <= i)

(***************************************************************************)
(* C9 amended: after a successful run the output file holds the header     *)
(* ("Transcript Summary" and a blank line), the text X of the response     *)
(* without its leading and trailing whitespace, and one newline.           *)
(***************************************************************************)
C9_HeaderThenTrimmedText ==
    (pc = "exited" /\ exitCode = 0) =>
        /\ summary \notin {None, JsonNonStr}
        /\ out_fs = <<"Transcript Summary", LF, LF>> \o Trimmed(summary) \o <<LF>>

C9_Witness ==
    /\ pc = "exited"
    /\ exitCode = 0
    /\ Len(summary) = 2
    /\ summary[1] = "a"
    /\ summary[2] = LF

(***************************************************************************)
(* C10: the stages run in the order validation, loader, client, writer,    *)
(* each only after the earlier ones succeeded, and a run that failed in    *)
(* validation, in loading or in the request (a service error, or a         *)
(* response whose content[0].text is absent or not a string) leaves the    *)
(* output path as it was before the run.                                   *)
(***************************************************************************)
FailedBeforeWriter ==
    \/ ~input_exists
    \/ ~InputIsTxt
    \/ ReadBlank
    \/ raised.stage \in {"construct", "load", "client"}
    \/ summary = JsonNonStr

C10_FailedRunLeavesOutputUntouched ==
    /\ \E n \in 0..Len(StageOrder) : log = SubSeq(StageOrder, 1, n)
    /\ "load" \in Range(log) => (input_exists /\ InputIsTxt)
    /\ invokeCalls > 0 => (text_content # None /\ Trimmed(text_content) # <<>>)
    /\ outOpened => (invokeCalls = 1 /\ summary # None /\ raised.stage # "client")
    /\ (pc = "exited" /\ FailedBeforeWriter) => (~outOpened /\ out_fs = out_fs0)

====
